---- MODULE Spec2Model ----
(***************************************************************************)
(* Model of the MEGA direct-download proxy (src/server.js).                *)
(*                                                                         *)
(* src/server.js holds two copies of the server: the "enhanced" one        *)
(* (lines 1-157) and the "simple" one (lines 159-271).  Both define        *)
(* isAllowedMegaLink, parseRange and the GET /dl handler; the variable     *)
(* `variant` says which copy serves the request.                           *)
(*                                                                         *)
(* Three specifications share the variables: SpecLink applies              *)
(* isAllowedMegaLink to every link, SpecRange applies parseRange to every  *)
(* header and positive size, Spec is the GET /dl handler followed by the   *)
(* relay of the provider stream into the response (stream.pipe(res)).      *)
(*                                                                         *)
(* Strings are sequences of tokens.  A token is an atomic piece of text    *)
(* ("https://", "mega.nz", "/", "file", "bytes=", "1", "-", ...); no token *)
(* is a concatenation of other tokens, so the token sequence determines    *)
(* the string and startsWith / split / replace / parseInt are computed on  *)
(* the sequence the way JavaScript computes them on the characters.        *)
(***************************************************************************)
EXTENDS Integers, Sequences, FiniteSets, TLC

VARIABLES variant, pc, megaLink, rangeHeader, file, err, res, range, dl,
          metaCalls, openCalls, allowed, stream, socket

vars == <<variant, pc, megaLink, rangeHeader, file, err, res, range, dl,
          metaCalls, openCalls, allowed, stream, socket>>

\* ------------------------------------------------------------------ bounds
\* longest part of a link after scheme and host, in tokens
MaxRest == 4
\* longest Range header given to parseRange on its own, in tokens
MaxHdrLen == 5
\* longest Range header of a /dl request, in tokens
MaxReqHdrLen == 3
\* longest message of a provider error, in words
MaxMsgWords == 1
\* largest file size the provider reports
MaxSize == 3
\* bytes the response buffers before write() asks the writer to wait
HighWaterMark == 2
\* largest file size given to parseRange on its own
MaxParseSize == 6

\* ------------------------------------------------------- generic helpers
SeqsUpTo(S, n) == UNION {[1..k -> S] : k \in 0..n}

StartsWith(s, p) == Len(s) >= Len(p) /\ SubSeq(s, 1, Len(p)) = p

\* index of the first occurrence of token t in s, 0 when there is none
FirstIndex(s, t) ==
  IF \E i \in 1..Len(s) : s[i] = t
  THEN CHOOSE i \in 1..Len(s) : s[i] = t /\ \A j \in 1..(i - 1) : s[j] # t
  ELSE 0

\* index of the first token of s that is in T, 0 when there is none
FirstIndexIn(s, T) ==
  IF \E i \in 1..Len(s) : s[i] \in T
  THEN CHOOSE i \in 1..Len(s) : s[i] \in T /\ \A j \in 1..(i - 1) : s[j] \notin T
  ELSE 0

\* the two copies of the server in src/server.js
Variants == {"enhanced", "simple"}

\* ------------------------------------------------------------- new URL()
Scheme == "https://"
HostTokens == {"mega.nz", "www.mega.nz", "mega.co.nz", "www.mega.co.nz",
               "MEGA.NZ", "evil.com"}
RestTokens == {"/", "file", "folder", "f", "#", "!", "id"}

\* the URL parser lower-cases the host
ToLower(t) == IF t = "MEGA.NZ" THEN "mega.nz" ELSE t

\* The strings a caller can put in ?link=: with or without a scheme, with or
\* without a host, followed by path and fragment text.
Links ==
  {p \o r : p \in {<<>>, <<Scheme>>} \cup {<<h>> : h \in HostTokens}
                 \cup {<<Scheme, h>> : h \in HostTokens},
            r \in SeqsUpTo(RestTokens, MaxRest)}

\* new URL(str): a TypeError ("throws") unless str is scheme, non-empty host,
\* then anything.  hostname is the text between the scheme and the first "/"
\* or "#", lower-cased; pathname runs from the first "/" to the first "#" and
\* is "/" when empty; hash is "" when the fragment is empty, else "#" and the
\* fragment.
ParseURL(str) ==
  IF Len(str) < 2 \/ str[1] # Scheme \/ str[2] \in {"/", "#"}
  THEN [throws |-> TRUE]
  ELSE LET after == SubSeq(str, 2, Len(str))
           cut   == FirstIndexIn(after, {"/", "#"})
           host  == IF cut = 0 THEN after ELSE SubSeq(after, 1, cut - 1)
           tail  == IF cut = 0 THEN <<>> ELSE SubSeq(after, cut, Len(after))
           h     == FirstIndex(tail, "#")
           path  == IF h = 0 THEN tail ELSE SubSeq(tail, 1, h - 1)
           frag  == IF h = 0 THEN <<>> ELSE SubSeq(tail, h, Len(tail))
       IN  [throws   |-> FALSE,
            hostname |-> [i \in 1..Len(host) |-> ToLower(host[i])],
            pathname |-> IF path = <<>> THEN <<"/">> ELSE path,
            hash     |-> IF Len(frag) <= 1 THEN <<>> ELSE frag]

AllowedHosts == {<<"mega.nz">>, <<"www.mega.nz">>, <<"mega.co.nz">>, <<"www.mega.co.nz">>}

\* ------------------------------------------------------ isAllowedMegaLink
\* lines 23-25: the link shapes the enhanced copy takes for a single file
IsFileLinkEnhanced(u) ==
  \/ StartsWith(u.pathname, <<"/", "file", "/">>)
  \/ (u.pathname = <<"/">> /\ StartsWith(u.hash, <<"#", "!">>))
  \/ StartsWith(u.pathname, <<"/", "#", "!">>)

\* line 179: the link shapes the simple copy takes for a single file
IsFileLinkSimple(u) ==
  \/ StartsWith(u.pathname, <<"/", "file", "/">>)
  \/ StartsWith(u.pathname, <<"/", "#", "!">>)
  \/ StartsWith(u.pathname, <<"/", "f", "/">>) = FALSE

isAllowedMegaLink_AnyHost(v, str) ==
  LET u == ParseURL(str)
  IN  IF u.throws THEN FALSE
      ELSE IF v = "enhanced" THEN IsFileLinkEnhanced(u) ELSE IsFileLinkSimple(u)

\* lines 17-31 and 175-184; the result is TRUE or FALSE, the catch turns the
\* TypeError of new URL into FALSE
isAllowedMegaLink(v, str) ==
  LET u == ParseURL(str)
  IN  IF u.throws THEN FALSE
      ELSE /\ u.hostname \in AllowedHosts
           /\ IF v = "enhanced" THEN IsFileLinkEnhanced(u) ELSE IsFileLinkSimple(u)

\* ---------------------------------------------------- JavaScript numbers
\* NaN is a number that is equal to, above and below nothing; it is kept as
\* an integer no computation of the model produces.
NaN == -1000000
IsNaN(x) == x = NaN
\* x - 1
Minus1(x) == IF IsNaN(x) THEN NaN ELSE x - 1
JsGt(a, b) == ~IsNaN(a) /\ ~IsNaN(b) /\ a > b
JsGe(a, b) == ~IsNaN(a) /\ ~IsNaN(b) /\ a >= b
JsLt(a, b) == ~IsNaN(a) /\ ~IsNaN(b) /\ a < b
\* !x for a number: 0 and NaN are falsy
Falsy(x) == IsNaN(x) \/ x = 0
\* Number.isFinite(x) for the numbers of the model
IsFinite(x) == ~IsNaN(x)

\* ------------------------------------------------------ JavaScript strings
Digits == {"0", "1", "5"}
DigitVal(c) == IF c = "0" THEN 0 ELSE IF c = "1" THEN 1 ELSE 5
Bytes == "bytes="
HdrTokens == {Bytes, "0", "1", "5", "-", ",", " ", "+"}
\* the value of a missing array element or header
Undefined == <<"undefined">>
\* a string is truthy unless it is empty; undefined is falsy
Truthy(s) == s # Undefined /\ s # <<>>

\* s.replace(t, ""): the first occurrence of t is removed
ReplaceFirst(s, t) ==
  LET i == FirstIndex(s, t)
  IN  IF i = 0 THEN s ELSE SubSeq(s, 1, i - 1) \o SubSeq(s, i + 1, Len(s))

\* s.split(sep): the pieces between the occurrences of sep, <<"">> for ""
RECURSIVE Split(_, _)
Split(s, sep) ==
  LET i == FirstIndex(s, sep)
  IN  IF i = 0 THEN <<s>>
      ELSE <<SubSeq(s, 1, i - 1)>> \o Split(SubSeq(s, i + 1, Len(s)), sep)

\* const [a, b] = parts: a missing element is undefined
Element(parts, i) == IF i <= Len(parts) THEN parts[i] ELSE Undefined

\* the value of the longest prefix of s made of digits, acc so far
RECURSIVE DigitsValue(_, _)
DigitsValue(s, acc) ==
  IF s = <<>> \/ Head(s) \notin Digits THEN acc
  ELSE DigitsValue(Tail(s), 10 * acc + DigitVal(Head(s)))

\* parseInt(s, 10): leading blanks are skipped, a sign is read, then the
\* digits up to the first other character; NaN when there is no digit
RECURSIVE ParseInt(_)
ParseInt(s) ==
  IF s = <<>> THEN NaN
  ELSE IF Head(s) = " " THEN ParseInt(Tail(s))
  ELSE LET signed == Head(s) \in {"+", "-"}
           body   == IF signed THEN Tail(s) ELSE s
       IN  IF body = <<>> \/ Head(body) \notin Digits THEN NaN
           ELSE IF Head(s) = "-" THEN 0 - DigitsValue(body, 0)
           ELSE DigitsValue(body, 0)

\* -------------------------------------------------------------- parseRange
Null == [kind |-> "null"]
Range(s, e) == [kind |-> "range", start |-> s, end |-> e]

parseRange_NoClamp(rangeHdr, size) ==
  IF ~Truthy(rangeHdr) \/ ~StartsWith(rangeHdr, <<Bytes>>) THEN Null
  ELSE LET parts    == Split(ReplaceFirst(rangeHdr, Bytes), "-")
           startStr == Element(parts, 1)
           endStr   == Element(parts, 2)
           start0   == IF Truthy(startStr) THEN ParseInt(startStr) ELSE 0
           end0     == IF Truthy(endStr) THEN ParseInt(endStr) ELSE Minus1(size)
           start    == IF IsNaN(start0) THEN 0 ELSE start0
           end      == IF IsNaN(end0) THEN Minus1(size) ELSE end0
       IN  IF JsGt(start, end) \/ JsLt(start, 0) THEN Null
           ELSE Range(start, end)

parseRange_LastPart(rangeHdr, size) ==
  IF ~Truthy(rangeHdr) \/ ~StartsWith(rangeHdr, <<Bytes>>) THEN Null
  ELSE LET parts    == Split(ReplaceFirst(rangeHdr, Bytes), "-")
           startStr == Element(parts, 1)
           endStr   == IF Len(parts) < 2 THEN Undefined ELSE parts[Len(parts)]
           start0   == IF Truthy(startStr) THEN ParseInt(startStr) ELSE 0
           end0     == IF Truthy(endStr) THEN ParseInt(endStr) ELSE Minus1(size)
           start    == IF IsNaN(start0) THEN 0 ELSE start0
           end      == IF IsNaN(end0) \/ JsGe(end0, size) THEN Minus1(size) ELSE end0
       IN  IF JsGt(start, end) \/ JsLt(start, 0) THEN Null
           ELSE Range(start, end)

\* lines 36-45 and 189-198 (the two copies are the same text)
parseRange(rangeHdr, size) ==
  IF ~Truthy(rangeHdr) \/ ~StartsWith(rangeHdr, <<Bytes>>) THEN Null
  ELSE LET parts    == Split(ReplaceFirst(rangeHdr, Bytes), "-")
           startStr == Element(parts, 1)
           endStr   == Element(parts, 2)
           start0   == IF Truthy(startStr) THEN ParseInt(startStr) ELSE 0
           end0     == IF Truthy(endStr) THEN ParseInt(endStr) ELSE Minus1(size)
           start    == IF IsNaN(start0) THEN 0 ELSE start0
           end      == IF IsNaN(end0) \/ JsGe(end0, size) THEN Minus1(size) ELSE end0
       IN  IF JsGt(start, end) \/ JsLt(start, 0) THEN Null
           ELSE Range(start, end)

\* --------------------------------------------------------- provider errors
\* err.code: the MEGA API codes the catch block tests (-9 ENOENT, -11
\* EACCESS, -8 EEXPIRED, -17 EOVERQUOTA, -18 ETEMPUNAVAIL), the API's code for
\* EKEY (-14), another code (-1) and no code at all (0)
ErrCodes == {0, -1, -8, -9, -11, -14, -17, -18}
MsgWords == {"ENOENT", "EACCESS", "EEXPIRED", "EOVERQUOTA", "EKEY", "decryption",
             "ETEMPUNAVAIL", "timeout"}
\* err.message: missing, or a text made of words
Messages == {Undefined} \cup SeqsUpTo(MsgWords, MaxMsgWords)
Errors == {[thrown |-> TRUE, code |-> c, message |-> m] : c \in ErrCodes, m \in Messages}
\* the errors File.fromURL() and file.download() throw synchronously: the
\* same codes, without a message
OpenErrors == {e \in Errors : e.message = Undefined}

\* err.message?.includes(w)
Includes(e, w) == e.message # Undefined /\ \E i \in 1..Len(e.message) : e.message[i] = w

\* an HTTP error outcome: status and body text (detail: the text passed through)
Outcome(st, txt, det) == [status |-> st, text |-> txt, detail |-> det]

\* the status and text the catch block answers with: lines 119-140 in the
\* enhanced copy, line 265 in the simple copy
mapError(v, e) ==
  IF v = "simple"
  THEN Outcome(500, "Failed to fetch from MEGA. Check the link and try again.", <<>>)
  ELSE IF Includes(e, "ENOENT") \/ e.code = -9
  THEN Outcome(404, "File not found. The MEGA link may be invalid or the file was deleted.", <<>>)
  ELSE IF Includes(e, "EACCESS") \/ e.code = -11
  THEN Outcome(403, "Access denied. The file may be private or the link is incorrect.", <<>>)
  ELSE IF Includes(e, "EEXPIRED") \/ e.code = -8
  THEN Outcome(410, "The MEGA link has expired. Please get a fresh link.", <<>>)
  ELSE IF Includes(e, "EOVERQUOTA") \/ e.code = -17
  THEN Outcome(429, "MEGA quota exceeded. Please try again later.", <<>>)
  ELSE IF Includes(e, "EKEY") \/ Includes(e, "decryption")
  THEN Outcome(400, "Invalid encryption key in the MEGA link.", <<>>)
  ELSE IF Includes(e, "ETEMPUNAVAIL") \/ e.code = -18
  THEN Outcome(503, "MEGA service temporarily unavailable. Please try again later.", <<>>)
  ELSE Outcome(500, "Failed to fetch from MEGA: ",
               IF Truthy(e.message) THEN e.message ELSE <<"Unknown error">>)

\* ------------------------------------------ specification: Link Validator
NoFile == [loaded |-> FALSE]
NoErr == [thrown |-> FALSE]
NoRange == [kind |-> "none"]
NoDownload == [opened |-> FALSE]
NoHeader == [set |-> FALSE]
HeaderNames == {"Content-Disposition", "Accept-Ranges", "Cache-Control",
                "Content-Type", "Content-Range", "Content-Length"}
FreshRes == [status |-> 200, headers |-> [h \in HeaderNames |-> NoHeader],
             body |-> "none", sent |-> 0]
\* no provider stream yet; the client connection is open and has got nothing
NoStream == [state |-> "none", source |-> <<>>, yielded |-> <<>>,
             flowing |-> FALSE, errored |-> FALSE]
NoSocket == [state |-> "open", buffered |-> <<>>, delivered |-> <<>>]

Idle ==
  /\ rangeHeader = <<>>
  /\ file = NoFile
  /\ err = NoErr
  /\ res = FreshRes
  /\ range = NoRange
  /\ dl = NoDownload
  /\ metaCalls = 0
  /\ openCalls = 0
  /\ stream = NoStream
  /\ socket = NoSocket

InitLink ==
  /\ variant \in Variants
  /\ megaLink \in Links
  /\ pc = "link"
  /\ allowed = "unknown"
  /\ Idle

CheckLink ==
  /\ pc = "link"
  /\ allowed' = IF isAllowedMegaLink(variant, megaLink) THEN "yes" ELSE "no"
  /\ pc' = "checked"
  /\ UNCHANGED <<variant, megaLink, rangeHeader, file, err, res, range, dl,
                 metaCalls, openCalls, stream, socket>>

NextLink == CheckLink

SpecLink == InitLink /\ [][NextLink]_vars

\* C1 as claimed (Link Validator, allowed host): a /file/<id> path is accepted;
\* a /folder/<id> path, and every other shape that is not a single-file
\* shape, is rejected.
IsFilePath(u) == StartsWith(u.pathname, <<"/", "file", "/">>) /\ Len(u.pathname) > 3
IsFolderPath(u) == StartsWith(u.pathname, <<"/", "folder", "/">>) /\ Len(u.pathname) > 3
IsLegacyShape(u) ==
  \/ (u.pathname = <<"/">> /\ StartsWith(u.hash, <<"#", "!">>))
  \/ StartsWith(u.pathname, <<"/", "#", "!">>)
IsSingleFileShape(u) == StartsWith(u.pathname, <<"/", "file", "/">>) \/ IsLegacyShape(u)
HasAllowedHost(str) == ~ParseURL(str).throws /\ ParseURL(str).hostname \in AllowedHosts

\* C1 (as claimed): for every link with an allowed hostname the validator
\* returns true on /file/<id> and false on /folder/<id> and on every path
\* that is not a recognised single-file shape.
C1_ValidatorShapes ==
  (pc = "checked" /\ HasAllowedHost(megaLink)) =>
     /\ IsFilePath(ParseURL(megaLink)) => allowed = "yes"
     /\ (IsFolderPath(ParseURL(megaLink)) \/ ~IsSingleFileShape(ParseURL(megaLink)))
           => allowed = "no"

\* C1 restricted to the enhanced copy, where it holds (recorded for reference)
C1_EnhancedOnly == variant = "enhanced" => C1_ValidatorShapes

\* C2: a link that does not parse as a URL, or whose hostname is not one of
\* the four allowed hostnames, is rejected whatever its path and fragment
\* are; the validator always produces a boolean.
C2_DisallowedRejected ==
  pc = "checked" =>
     /\ allowed \in {"yes", "no"}
     /\ ~HasAllowedHost(megaLink) => allowed = "no"

\* C2 witness: a foreign host with a perfectly good /file/<id> path was rejected
C2_Witness ==
  /\ pc = "checked"
  /\ megaLink = <<Scheme, "evil.com", "/", "file", "/", "id">>
  /\ allowed = "no"

\* -------------------------------------------- specification: Range Parser
\* the Range headers parseRange is given: none at all, or any text
\* one range of a multi-range header: <start>-<end>, either side maybe empty
Segments ==
  {a \o <<"-">> \o b : a, b \in {<<>>} \cup {<<d>> : d \in Digits}}
\* the two-range headers bytes=<range>,<range>
MultiRangeHeaders == {<<Bytes>> \o s1 \o <<",">> \o s2 : s1, s2 \in Segments}
Headers == {Undefined} \cup SeqsUpTo(HdrTokens, MaxHdrLen) \cup MultiRangeHeaders

InitRange ==
  /\ variant \in Variants
  /\ megaLink = <<>>
  /\ allowed = "unknown"
  /\ pc = "range"
  /\ rangeHeader \in Headers
  /\ file \in {[loaded |-> TRUE, name |-> "a.bin", size |-> n] : n \in 1..MaxParseSize}
  /\ err = NoErr
  /\ res = FreshRes
  /\ range = NoRange
  /\ dl = NoDownload
  /\ metaCalls = 0
  /\ openCalls = 0
  /\ stream = NoStream
  /\ socket = NoSocket

ApplyParseRange ==
  /\ pc = "range"
  /\ range' = parseRange(rangeHeader, file.size)
  /\ pc' = "parsed"
  /\ UNCHANGED <<variant, megaLink, rangeHeader, file, err, res, dl,
                 metaCalls, openCalls, allowed, stream, socket>>

NextRange == ApplyParseRange

SpecRange == InitRange /\ [][NextRange]_vars

\* ---- C4: the reference rule for a header bytes=<start>-<end>
\* the header has the form bytes=<start>-<end>: one "-", <start> is the text
\* between "bytes=" and the "-", <end> is the text after it
HasRangeForm(h) ==
  /\ h # Undefined
  /\ StartsWith(h, <<Bytes>>)
  /\ Cardinality({i \in 1..Len(h) : h[i] = "-"}) = 1
StartField(h) == SubSeq(h, 2, FirstIndex(h, "-") - 1)
EndField(h) == SubSeq(h, FirstIndex(h, "-") + 1, Len(h))

\* what parseInt looks at in a field: after the blanks and an optional "+"
RECURSIVE SkipBlanks(_)
SkipBlanks(f) == IF f # <<>> /\ Head(f) = " " THEN SkipBlanks(Tail(f)) ELSE f
Unsigned(f) == IF f # <<>> /\ Head(f) = "+" THEN Tail(f) ELSE f
LeadingNumber(f) == Unsigned(SkipBlanks(f))

\* a field is numeric when it is a decimal number (blanks and a "+" may
\* come before the digits, nothing after them)
IsNumeric(f) ==
  LeadingNumber(f) # <<>> /\ \A i \in 1..Len(LeadingNumber(f)) : LeadingNumber(f)[i] \in Digits
\* a field begins with a decimal number
HasLeadingNumber(f) == LeadingNumber(f) # <<>> /\ Head(LeadingNumber(f)) \in Digits

\* the rule of the claim for start field sf, end field ef and a size
RuleOf(sf, ef, size, numericStart, numericEnd) ==
  LET start == IF numericStart THEN DigitsValue(LeadingNumber(sf), 0) ELSE 0
      end   == IF numericEnd /\ DigitsValue(LeadingNumber(ef), 0) < size
               THEN DigitsValue(LeadingNumber(ef), 0) ELSE size - 1
  IN  IF start > end \/ start < 0 THEN Null ELSE Range(start, end)

\* C4 (as claimed): on every header bytes=<start>-<end> and positive size
\* parseRange gives the reference rule's result, where a start that is
\* missing or not a number is 0 and an end that is missing, not a number or
\* >= size is size-1; the result is Invalid when start > end.
C4_ReferenceRule ==
  (pc = "parsed" /\ HasRangeForm(rangeHeader)) =>
     range = RuleOf(StartField(rangeHeader), EndField(rangeHeader), file.size,
                    IsNumeric(StartField(rangeHeader)),
                    IsNumeric(EndField(rangeHeader)))

\* C4 (amended): the same rule, where a field counts as a number as soon as
\* it begins with one: its leading digits are its value and the text after
\* them is ignored; only a field with no leading digit is defaulted.
C4_LeadingDigitsRule ==
  (pc = "parsed" /\ HasRangeForm(rangeHeader)) =>
     range = RuleOf(StartField(rangeHeader), EndField(rangeHeader), file.size,
                    HasLeadingNumber(StartField(rangeHeader)),
                    HasLeadingNumber(EndField(rangeHeader)))

\* C4 witness: an end beyond the size was clamped (bytes=1-15 of a 6-byte file)
C4_Witness ==
  /\ pc = "parsed"
  /\ rangeHeader = <<Bytes, "1", "-", "1", "5">>
  /\ file.size = MaxParseSize
  /\ range = Range(1, MaxParseSize - 1)

\* the worked examples of the claim, scaled to the sizes of the model
C4_Examples ==
  pc = "parsed" =>
     /\ rangeHeader = <<Bytes, "-", "1">> /\ file.size > 1 => range = Range(0, 1)
     /\ rangeHeader = <<Bytes, "1", "-">> /\ file.size > 1 => range = Range(1, file.size - 1)
     /\ rangeHeader = <<Bytes, "1", "-", "5", "5">> /\ file.size > 1 => range = Range(1, file.size - 1)
     /\ rangeHeader = <<Bytes, "5", "-", "1">> => range = Null

\* ---- C18: multi-range headers
\* a multi-range header: bytes=, a first range (it has a "-"), a ",", more
IsMultiRange(h) ==
  /\ h # Undefined
  /\ StartsWith(h, <<Bytes>>)
  /\ FirstIndex(h, ",") # 0
  /\ FirstIndex(h, "-") # 0
  /\ FirstIndex(h, "-") < FirstIndex(h, ",")
\* the header cut before its first ",": bytes= and the first range alone
FirstSegmentOnly(h) == SubSeq(h, 1, FirstIndex(h, ",") - 1)
\* what the claim expects of the first range sf-ef: its digits, defaulted and
\* clamped
FirstSegmentRange(h, size) ==
  LET seg == FirstSegmentOnly(h)
      sf  == SubSeq(seg, 2, FirstIndex(seg, "-") - 1)
      ef0 == SubSeq(seg, FirstIndex(seg, "-") + 1, Len(seg))
      ef  == IF FirstIndex(ef0, "-") = 0 THEN ef0
             ELSE SubSeq(ef0, 1, FirstIndex(ef0, "-") - 1)
  IN  RuleOf(sf, ef, size, HasLeadingNumber(sf), HasLeadingNumber(ef))

\* C18: a multi-range header gives the range of its first segment alone
\* (defaulted and clamped against the size as usual); what follows the first
\* "," has no influence on start or end.
C18_FirstSegmentOnly ==
  (pc = "parsed" /\ IsMultiRange(rangeHeader)) =>
     range = FirstSegmentRange(rangeHeader, file.size)

\* C18 witness: bytes=0-1,5-5 of a 6-byte file was parsed as {0,1}
C18_Witness ==
  /\ pc = "parsed"
  /\ rangeHeader = <<Bytes, "0", "-", "1", ",", "5", "-", "5">>
  /\ file.size = 6
  /\ range = Range(0, 1)

\* ------------------------------------------------- the response object res
Header(v) == [set |-> TRUE, value |-> v]
TextBody(txt, det) == [kind |-> "text", text |-> txt, detail |-> det]
StreamBody == [kind |-> "stream"]

\* res.status(code)
Status(r, code) == [r EXCEPT !.status = code]
\* res.setHeader(name, value)
SetHeader(r, name, v) == [r EXCEPT !.headers[name] = Header(v)]
\* res.send(text): the headers set so far stay; Content-Type gets a charset,
\* or becomes text/html when it was not set; Content-Length becomes the
\* length of the text; the response ends
Send(r, txt, det) ==
  LET ct == r.headers["Content-Type"]
      typed == IF ct.set
               THEN SetHeader(r, "Content-Type", [ct.value EXCEPT !.charset = "utf-8"])
               ELSE SetHeader(r, "Content-Type", [type |-> "text/html", charset |-> "utf-8"])
      sized == SetHeader(typed, "Content-Length", [of |-> "text", n |-> 0])
  IN  [sized EXCEPT !.body = TextBody(txt, det), !.sent = @ + 1]
\* stream.pipe(res): the response body is the relayed stream
Pipe(r) == [r EXCEPT !.body = StreamBody, !.sent = @ + 1]

OctetStream == [type |-> "application/octet-stream", charset |-> ""]

\* encodeURIComponent(name) for the names of the model
EncodeURIComponent(n) == IF n = "a b.bin" THEN "a%20b.bin" ELSE n

\* -------------------------------------------------------- GET /dl handler
\* file.name: missing ("") or a name; Number(file.size): NaN when missing
FileNames == {"", "a b.bin"}
FileSizes == {NaN} \cup 0..MaxSize
\* the Range headers of the requests: none, or text without blanks and signs
ReqHdrTokens == HdrTokens \ {" ", "+"}
ReqHeaders == {Undefined} \cup SeqsUpTo(ReqHdrTokens, MaxReqHdrLen)
\* the links of the requests: none, not a URL, foreign host, file link, folder
\* link, legacy link, bare root, short folder form, upper-case host
ReqLinks == {<<>>,
             <<"mega.nz", "/", "file", "/", "id">>,
             <<Scheme, "evil.com", "/", "file", "/", "id">>,
             <<Scheme, "mega.nz", "/", "file", "/", "id">>,
             <<Scheme, "mega.nz", "/", "folder", "/", "id">>,
             <<Scheme, "mega.nz", "/", "#", "!", "id">>,
             <<Scheme, "www.mega.nz", "/">>,
             <<Scheme, "mega.co.nz", "/", "f", "/", "id">>,
             <<Scheme, "MEGA.NZ", "/", "file", "/", "id">>}

\* lines 79 and 229
fileName(f) == IF f.name # "" THEN f.name ELSE "download.bin"

chunkSize_OffByOne(start, end) == IF IsNaN(start) \/ IsNaN(end) THEN NaN ELSE end - start

\* lines 98 and 242
chunkSize(start, end) == IF IsNaN(start) \/ IsNaN(end) THEN NaN ELSE end - start + 1

\* lines 90-92 and 233-235
BaseHeaders(r, f) ==
  SetHeader(SetHeader(SetHeader(r,
     "Content-Disposition", [attachment |-> EncodeURIComponent(fileName(f))]),
     "Accept-Ranges", "bytes"),
     "Cache-Control", "no-store")

\* lines 99-102 and 244-247
RangeHeaders(r, rg, size) ==
  SetHeader(SetHeader(SetHeader(Status(r, 206),
     "Content-Type", OctetStream),
     "Content-Range", [start |-> rg.start, end |-> rg.end, size |-> size]),
     "Content-Length", [of |-> "file", n |-> chunkSize(rg.start, rg.end)])

FullHeaders_NoLength(v, r, size) == SetHeader(Status(r, 200), "Content-Type", OctetStream)

\* lines 108-110 and 254-258
FullHeaders(v, r, size) ==
  LET sized == IF v = "enhanced" \/ IsFinite(size)
               THEN SetHeader(Status(r, 200), "Content-Length", [of |-> "file", n |-> size])
               ELSE Status(r, 200)
  IN  SetHeader(sized, "Content-Type", OctetStream)

Prepared_Piped(v, r, f, rg) ==
  Pipe(IF rg.kind = "range" THEN RangeHeaders(BaseHeaders(r, f), rg, f.size)
       ELSE FullHeaders(v, BaseHeaders(r, f), f.size))

\* the response as it stands when file.download is called (lines 90-104 and
\* 108-112; 233-250 and 254-260)
Prepared(v, r, f, rg) ==
  IF rg.kind = "range" THEN RangeHeaders(BaseHeaders(r, f), rg, f.size)
  ELSE FullHeaders(v, BaseHeaders(r, f), f.size)

\* the argument of file.download: lines 105, 113 and 251, 261
DownloadArgs(rg, ok) ==
  IF rg.kind = "range"
  THEN [opened |-> TRUE, ok |-> ok, ranged |-> TRUE, start |-> rg.start, end |-> rg.end]
  ELSE [opened |-> TRUE, ok |-> ok, ranged |-> FALSE]

Catch_Swallowed(v, r, e) == r

\* the catch block: lines 116-141 and 263-266
Catch(v, r, e) ==
  Send(Status(r, mapError(v, e).status), mapError(v, e).text, mapError(v, e).detail)

\* line 83: the enhanced copy refuses a size of 0 or NaN
RefusesSize(v, size) == v = "enhanced" /\ (Falsy(size) \/ size = 0)

\* the length of the remote file: the reported size, or any length when the
\* provider reported none
RealLengths(size) == IF IsNaN(size) THEN 0..MaxSize ELSE {size}

\* file.download(args) on a file of len bytes: the bytes of the window, or
\* of the whole file, each byte written as its offset in the file
Content(args, len) ==
  LET lo == IF args.ranged THEN args.start ELSE 0
      hi == IF args.ranged /\ ~IsNaN(args.end) /\ args.end < len THEN args.end ELSE len - 1
      n  == IF hi >= lo THEN hi - lo + 1 ELSE 0
  IN  [i \in 1..n |-> lo + i - 1]

\* the stream file.download returns, before anything was read from it
Opened(bytes) == [state |-> "open", source |-> bytes, yielded |-> <<>>,
                  flowing |-> TRUE, errored |-> FALSE]

LinkAccepted_Unchecked(v, link) == TRUE

\* lines 66 and 220: the test that lets a link through to the provider
LinkAccepted(v, link) == isAllowedMegaLink(v, link)

Init ==
  /\ variant \in Variants
  /\ megaLink \in ReqLinks
  /\ pc = "Received"
  /\ allowed = "unknown"
  /\ rangeHeader = Undefined
  /\ file = NoFile
  /\ err = NoErr
  /\ res = FreshRes
  /\ range = NoRange
  /\ dl = NoDownload
  /\ metaCalls = 0
  /\ openCalls = 0
  /\ stream = NoStream
  /\ socket = NoSocket

\* lines 63-65 and 217-219
RejectMissing ==
  /\ pc = "Received"
  /\ ~Truthy(megaLink)
  /\ res' = Send(Status(res, 400), "Missing ?link=<MEGA_PUBLIC_FILE_URL>", <<>>)
  /\ pc' = "Responded"
  /\ UNCHANGED <<variant, megaLink, rangeHeader, file, err, range, dl,
                 metaCalls, openCalls, allowed, stream, socket>>

\* lines 66-68 and 220-222
RejectLink ==
  /\ pc = "Received"
  /\ Truthy(megaLink)
  /\ ~LinkAccepted(variant, megaLink)
  /\ allowed' = "no"
  /\ res' = Send(Status(res, 400), "Only public MEGA FILE links are supported.", <<>>)
  /\ pc' = "Responded"
  /\ UNCHANGED <<variant, megaLink, rangeHeader, file, err, range, dl,
                 metaCalls, openCalls, stream, socket>>

\* lines 74-77 and 226-227: File.fromURL returns and loadAttributes is awaited
StartLoad ==
  /\ pc = "Received"
  /\ Truthy(megaLink)
  /\ LinkAccepted(variant, megaLink)
  /\ allowed' = "yes"
  /\ metaCalls' = metaCalls + 1
  /\ pc' = "Validated"
  /\ UNCHANGED <<variant, megaLink, rangeHeader, file, err, res, range, dl, openCalls, stream, socket>>

\* lines 74 and 226: File.fromURL throws, the catch block answers
FromURLThrows ==
  /\ pc = "Received"
  /\ Truthy(megaLink)
  /\ LinkAccepted(variant, megaLink)
  /\ allowed' = "yes"
  /\ \E e \in OpenErrors :
        /\ err' = e
        /\ res' = Catch(variant, res, e)
  /\ pc' = "Responded"
  /\ UNCHANGED <<variant, megaLink, rangeHeader, file, range, dl, metaCalls, openCalls, stream, socket>>

\* lines 77 and 227: loadAttributes rejects, the catch block answers
LoadAttributesFails ==
  /\ pc = "Validated"
  /\ \E e \in Errors :
        /\ err' = e
        /\ res' = Catch(variant, res, e)
  /\ pc' = "Responded"
  /\ UNCHANGED <<variant, megaLink, rangeHeader, file, range, dl,
                 metaCalls, openCalls, allowed, stream, socket>>

\* lines 79-85: loadAttributes resolves, the size is 0 or missing
EmptyFile ==
  /\ pc = "Validated"
  /\ \E n \in FileNames, sz \in FileSizes :
        /\ RefusesSize(variant, sz)
        /\ file' = [loaded |-> TRUE, name |-> n, size |-> sz]
  /\ res' = Send(Status(res, 400), "File appears to be empty or invalid.", <<>>)
  /\ pc' = "Responded"
  /\ UNCHANGED <<variant, megaLink, rangeHeader, err, range, dl,
                 metaCalls, openCalls, allowed, stream, socket>>

\* lines 79-114 and 229-262: loadAttributes resolves, the headers are set,
\* file.download returns a stream and it is piped into the response
Serve ==
  /\ pc = "Validated"
  /\ \E n \in FileNames, sz \in FileSizes, h \in ReqHeaders :
        LET f  == [loaded |-> TRUE, name |-> n, size |-> sz]
            rg == parseRange(h, sz)
        IN  /\ ~RefusesSize(variant, sz)
            /\ file' = f
            /\ rangeHeader' = h
            /\ range' = rg
            /\ dl' = DownloadArgs(rg, TRUE)
            /\ res' = Pipe(Prepared(variant, res, f, rg))
            /\ \E len \in RealLengths(sz) :
                  stream' = Opened(Content(DownloadArgs(rg, TRUE), len))
  /\ openCalls' = openCalls + 1
  /\ pc' = "Streaming"
  /\ UNCHANGED <<variant, megaLink, err, metaCalls, allowed, socket>>

\* the same, but file.download throws and the catch block answers
OpenThrows ==
  /\ pc = "Validated"
  /\ \E n \in FileNames, sz \in FileSizes, h \in ReqHeaders, e \in OpenErrors :
        LET f  == [loaded |-> TRUE, name |-> n, size |-> sz]
            rg == parseRange(h, sz)
        IN  /\ ~RefusesSize(variant, sz)
            /\ file' = f
            /\ rangeHeader' = h
            /\ range' = rg
            /\ dl' = DownloadArgs(rg, FALSE)
            /\ err' = e
            /\ res' = Catch(variant, Prepared(variant, res, f, rg), e)
  /\ openCalls' = openCalls + 1
  /\ pc' = "Responded"
  /\ UNCHANGED <<variant, megaLink, metaCalls, allowed, stream, socket>>

\* ------------------------------------------------------- stream.pipe(res)
\* lines 105, 113 and 251, 261.  pipe(res) relays each chunk of the provider
\* stream with res.write(chunk); a chunk is one byte here.

\* res.write(chunk): the chunk waits in the response's buffer
Write(sock, chunk) == [sock EXCEPT !.buffered = Append(@, chunk)]

NeedsDrain_Never(sock) == FALSE

\* write() returned false: the buffer has reached the high-water mark
NeedsDrain(sock) == Len(sock.buffered) >= HighWaterMark

\* the client connection takes the oldest buffered byte
Accept(sock) == [sock EXCEPT !.buffered = Tail(@),
                             !.delivered = Append(@, Head(sock.buffered))]

\* 'data' on the provider stream: pipe writes the chunk and pauses the
\* stream when write() returns false
ProviderData ==
  /\ pc = "Streaming"
  /\ stream.state = "open" /\ stream.flowing
  /\ stream.source # <<>>
  /\ LET chunk   == Head(stream.source)
         written == Write(socket, chunk)
     IN  /\ socket' = written
         /\ stream' = [stream EXCEPT !.source = Tail(@),
                                     !.yielded = Append(@, chunk),
                                     !.flowing = ~NeedsDrain(written)]
  /\ UNCHANGED <<variant, pc, megaLink, rangeHeader, file, err, res, range, dl,
                 metaCalls, openCalls, allowed>>

\* the client takes a byte; when the buffer empties, 'drain' resumes a
\* paused provider stream
ClientAccept ==
  /\ pc = "Streaming"
  /\ socket.state \in {"open", "ending"}
  /\ socket.buffered # <<>>
  /\ socket' = Accept(socket)
  /\ stream' = IF stream.state = "open" /\ socket'.buffered = <<>>
               THEN [stream EXCEPT !.flowing = TRUE]
               ELSE stream
  /\ UNCHANGED <<variant, pc, megaLink, rangeHeader, file, err, res, range, dl,
                 metaCalls, openCalls, allowed>>

\* 'end' on the provider stream: pipe calls res.end()
ProviderEnd ==
  /\ pc = "Streaming"
  /\ stream.state = "open" /\ stream.flowing
  /\ stream.source = <<>>
  /\ socket.state = "open"
  /\ stream' = [stream EXCEPT !.state = "ended", !.flowing = FALSE]
  /\ socket' = [socket EXCEPT !.state = "ending"]
  /\ UNCHANGED <<variant, pc, megaLink, rangeHeader, file, err, res, range, dl,
                 metaCalls, openCalls, allowed>>

\* the last buffered byte was taken after res.end(): the response is
\* complete
Complete ==
  /\ pc = "Streaming"
  /\ socket.state = "ending"
  /\ socket.buffered = <<>>
  /\ socket' = [socket EXCEPT !.state = "finished"]
  /\ pc' = "Completed"
  /\ UNCHANGED <<variant, megaLink, rangeHeader, file, err, res, range, dl,
                 metaCalls, openCalls, allowed, stream>>

\* the client closes the connection: pipe's 'close' listener on res only
\* unpipes, which pauses the provider stream; the handler has no listener
\* of its own, so nothing destroys the stream
ClientDisconnect ==
  /\ pc = "Streaming"
  /\ socket.state \in {"open", "ending"}
  /\ socket' = [socket EXCEPT !.state = "closed", !.buffered = <<>>]
  /\ stream' = IF stream.state = "open"
               THEN [stream EXCEPT !.flowing = FALSE]
               ELSE stream
  /\ pc' = "Aborted"
  /\ UNCHANGED <<variant, megaLink, rangeHeader, file, err, res, range, dl,
                 metaCalls, openCalls, allowed>>

ProviderError_Swallowed ==
  /\ pc = "Streaming"
  /\ stream.state = "open"
  /\ stream' = [stream EXCEPT !.errored = TRUE, !.flowing = FALSE]
  /\ UNCHANGED <<variant, pc, megaLink, rangeHeader, file, err, res, range, dl,
                 metaCalls, openCalls, allowed, socket>>

\* 'error' on the provider stream: neither pipe nor the handler listens for
\* it and the try block has been left, so the error is an uncaught
\* exception; the process ends, and with it the stream and the connection
ProviderError ==
  /\ pc = "Streaming"
  /\ stream.state = "open"
  /\ stream' = [stream EXCEPT !.state = "destroyed", !.errored = TRUE,
                              !.flowing = FALSE]
  /\ socket' = [socket EXCEPT !.state = "closed", !.buffered = <<>>]
  /\ pc' = "Aborted"
  /\ UNCHANGED <<variant, megaLink, rangeHeader, file, err, res, range, dl,
                 metaCalls, openCalls, allowed>>

Next ==
  \/ RejectMissing
  \/ RejectLink
  \/ StartLoad
  \/ FromURLThrows
  \/ LoadAttributesFails
  \/ EmptyFile
  \/ Serve
  \/ OpenThrows
  \/ ProviderData
  \/ ClientAccept
  \/ ProviderEnd
  \/ Complete
  \/ ClientDisconnect
  \/ ProviderError

Spec == Init /\ [][Next]_vars

\* ------------------------------------------------ claims about the handler
\* the handler has answered: an error or rejection was sent, or the relay runs
Answered == pc \in {"Responded", "Streaming", "Completed", "Aborted"}
HeaderOf(name) == res.headers[name]
PositiveSize == file.loaded /\ JsGt(file.size, 0)

\* 0 <= s <= e <= size - 1, for JavaScript numbers
InWindow(s, e, size) ==
  /\ ~IsNaN(s) /\ ~IsNaN(e) /\ ~IsNaN(size)
  /\ 0 <= s /\ s <= e /\ e <= size - 1

\* C3 (as claimed): every concrete range parseRange returns, for every size
\* the provider reports, has 0 <= start <= end <= size-1, and the ranged
\* download is only ever opened with such a window.
C3_WindowInvariant ==
  /\ range.kind = "range" => InWindow(range.start, range.end, file.size)
  /\ (dl.opened /\ dl.ranged) => InWindow(dl.start, dl.end, file.size)

\* C3 for the positive sizes of the Range Parser's contract, where it holds
\* (recorded for reference; checked under SpecRange)
C3_PositiveSizes ==
  (pc = "parsed" /\ range.kind = "range") => InWindow(range.start, range.end, file.size)

\* C5 (as claimed): with a positive size and a concrete range the response
\* is 206 with Content-Range bytes start-end/size and Content-Length
\* end-start+1, and the stream is opened with exactly that window.
C5_PartialContent ==
  (Answered /\ PositiveSize /\ range.kind = "range") =>
     /\ res.status = 206
     /\ HeaderOf("Content-Range") =
           Header([start |-> range.start, end |-> range.end, size |-> file.size])
     /\ HeaderOf("Content-Length") =
           Header([of |-> "file", n |-> range.end - range.start + 1])
     /\ dl.opened /\ dl.ranged /\ dl.start = range.start /\ dl.end = range.end

\* C5 (amended): with a positive size and a concrete range file.download is
\* called with exactly that window, and unless that call throws the response
\* is 206 with Content-Range bytes start-end/size and Content-Length
\* end-start+1.
C5_PartialContentUnlessOpenThrows ==
  (Answered /\ PositiveSize /\ range.kind = "range") =>
     /\ dl.opened /\ dl.ranged /\ dl.start = range.start /\ dl.end = range.end
     /\ dl.ok =>
          /\ res.status = 206
          /\ HeaderOf("Content-Range") =
                Header([start |-> range.start, end |-> range.end, size |-> file.size])
          /\ HeaderOf("Content-Length") =
                Header([of |-> "file", n |-> range.end - range.start + 1])
          /\ res.body = StreamBody

\* C5 witness: bytes=1- of a 3-byte file is being relayed as 206, bytes 1-2/3
C5_Witness ==
  /\ pc = "Streaming"
  /\ rangeHeader = <<Bytes, "1", "-">>
  /\ file.size = 3
  /\ res.status = 206
  /\ dl = [opened |-> TRUE, ok |-> TRUE, ranged |-> TRUE, start |-> 1, end |-> 2]

\* C6 (as claimed): with a positive size and a Range header that is absent,
\* not prefixed with bytes= or Invalid, the response is 200 with
\* Content-Length size and no Content-Range, the stream is opened without a
\* range, and no rejection is produced.
C6_FullContent ==
  (Answered /\ PositiveSize /\ range.kind = "null") =>
     /\ res.status = 200
     /\ HeaderOf("Content-Length") = Header([of |-> "file", n |-> file.size])
     /\ ~HeaderOf("Content-Range").set
     /\ dl.opened /\ ~dl.ranged

\* C6 (amended): in the same case file.download is called without a range,
\* Content-Range is never set and the status is never 416; unless that call
\* throws, the response is 200 with Content-Length size.
C6_FullContentUnlessOpenThrows ==
  (Answered /\ PositiveSize /\ range.kind = "null") =>
     /\ dl.opened /\ ~dl.ranged
     /\ ~HeaderOf("Content-Range").set
     /\ res.status # 416
     /\ dl.ok =>
          /\ res.status = 200
          /\ HeaderOf("Content-Length") = Header([of |-> "file", n |-> file.size])
          /\ res.body = StreamBody

\* C6 witness: bytes=5- of a 3-byte file (start >= size) is served in full
C6_Witness ==
  /\ pc = "Streaming"
  /\ rangeHeader = <<Bytes, "5", "-">>
  /\ file.size = 3
  /\ range = Null
  /\ res.status = 200
  /\ dl = [opened |-> TRUE, ok |-> TRUE, ranged |-> FALSE]

\* C7 (as claimed): when the metadata resolves with a size that is 0 or
\* missing, the request ends with 400 and the empty-or-invalid-file message,
\* and no provider stream is opened.
C7_EmptyFileRejected ==
  (Answered /\ file.loaded /\ Falsy(file.size)) =>
     /\ res.status = 400
     /\ res.body = TextBody("File appears to be empty or invalid.", <<>>)
     /\ ~dl.opened

\* C7 restricted to the enhanced copy, where it holds (recorded for reference)
C7_EnhancedOnly == variant = "enhanced" => C7_EmptyFileRejected

\* the table of section 4.4, in its order: the provider's code, the words of
\* the message, and the status
ConditionTable ==
  << [code |-> -9,  words |-> {"ENOENT"},             status |-> 404],
     [code |-> -11, words |-> {"EACCESS"},            status |-> 403],
     [code |-> -8,  words |-> {"EEXPIRED"},           status |-> 410],
     [code |-> -17, words |-> {"EOVERQUOTA"},         status |-> 429],
     [code |-> -14, words |-> {"EKEY", "decryption"}, status |-> 400],
     [code |-> -18, words |-> {"ETEMPUNAVAIL"},       status |-> 503] >>
Conditions == 1..Len(ConditionTable)
SignalsByCode(e, i) == e.code = ConditionTable[i].code
SignalsByMessage(e, i) == \E w \in ConditionTable[i].words : Includes(e, w)
Signals(e, i) == SignalsByCode(e, i) \/ SignalsByMessage(e, i)
\* the catch block has answered for the error err
Mapped == pc = "Responded" /\ err.thrown

\* C8 (as claimed): an error that signals one condition of the table gets
\* that condition's status, and an error that signals none gets 500.
C8_MapperTable ==
  Mapped =>
     /\ \A i \in Conditions :
           (Signals(err, i) /\ \A j \in Conditions \ {i} : ~Signals(err, j))
              => res.status = ConditionTable[i].status
     /\ (\A i \in Conditions : ~Signals(err, i)) => res.status = 500

\* no word of the message signals a condition
OnlyByCode(e) == \A j \in Conditions : ~SignalsByMessage(e, j)
\* the code signals no condition and the message signals no other than i
OnlyByMessage(e, i) ==
  /\ \A j \in Conditions : ~SignalsByCode(e, j)
  /\ \A j \in Conditions \ {i} : ~SignalsByMessage(e, j)

\* C9 (as claimed, for the enhanced copy it is drawn from): an error that
\* signals a condition only through its code, or only through its message,
\* gets that condition's status.
C9_EitherChannel ==
  (Mapped /\ variant = "enhanced") =>
     \A i \in Conditions :
        /\ (SignalsByCode(err, i) /\ OnlyByCode(err))
              => res.status = ConditionTable[i].status
        /\ (SignalsByMessage(err, i) /\ OnlyByMessage(err, i))
              => res.status = ConditionTable[i].status

\* the download headers of a response
HasDownloadHeader ==
  \/ HeaderOf("Content-Disposition").set
  \/ HeaderOf("Accept-Ranges").set
  \/ HeaderOf("Content-Range").set
  \/ (HeaderOf("Content-Length").set /\ HeaderOf("Content-Length").value.of = "file")
SuccessBranch ==
  /\ res.status \in {200, 206}
  /\ res.body = StreamBody
  /\ HeaderOf("Content-Disposition").set
  /\ HeaderOf("Accept-Ranges").set
ErrorBranch ==
  /\ res.status >= 400
  /\ res.body.kind = "text"
  /\ ~HasDownloadHeader

\* C10 (as claimed): every response is wholly a success branch (200 or 206,
\* download headers, relayed stream) or wholly an error branch (4xx/5xx and a
\* message, none of the download headers).
C10_NoMixedResponse == Answered => (SuccessBranch \/ ErrorBranch)

\* the conditions the error e signals, through either channel
Signalled(e) == {i \in Conditions : Signals(e, i)}
\* the first of a non-empty set of conditions, in the order of the table
FirstOf(S) == CHOOSE i \in S : \A j \in S : i <= j

\* C17 (as claimed, for the enhanced copy it is drawn from): an error that
\* matches two or more conditions gets the status of the one that comes first
\* in the table.
C17_FirstMatchWins ==
  (Mapped /\ variant = "enhanced" /\ Cardinality(Signalled(err)) >= 2) =>
     res.status = ConditionTable[FirstOf(Signalled(err))].status

\* the conditions the catch block of the enhanced copy tests for: every
\* signal but the invalid-key code
Tested(e) == {i \in Conditions : SignalsByMessage(e, i)
                 \/ (SignalsByCode(e, i) /\ i # 5)}
\* C17 for the signals the catch block tests, where it holds (recorded for
\* reference)
C17_AmongTestedSignals ==
  (Mapped /\ variant = "enhanced" /\ Cardinality(Tested(err)) >= 2) =>
     res.status = ConditionTable[FirstOf(Tested(err))].status

\* C13: a request whose link is missing or fails the Link Validator gets 400
\* and a fixed message at once, and the provider is never called for it
\* (neither loadAttributes nor download); a stream is only ever opened after
\* the metadata has been resolved.
C13_NoProviderForBadLink ==
  /\ (pc # "Received" /\ (~Truthy(megaLink) \/ ~isAllowedMegaLink(variant, megaLink))) =>
        /\ pc = "Responded"
        /\ res.status = 400
        /\ res.body \in {TextBody("Missing ?link=<MEGA_PUBLIC_FILE_URL>", <<>>),
                         TextBody("Only public MEGA FILE links are supported.", <<>>)}
        /\ metaCalls = 0 /\ openCalls = 0
        /\ ~file.loaded /\ ~dl.opened
  /\ (openCalls > 0 \/ dl.opened) => (metaCalls > 0 /\ file.loaded)

\* C13 witness: a link on a foreign host was answered 400 without any call
C13_Witness ==
  /\ pc = "Responded"
  /\ megaLink = <<Scheme, "evil.com", "/", "file", "/", "id">>
  /\ res.status = 400
  /\ metaCalls = 0 /\ openCalls = 0

\* C14: loadAttributes and download are each called at most once per
\* request, and an error thrown by the provider ends the request with the
\* Error Mapper's status and message, with no further call.
C14_NoRetry ==
  /\ metaCalls <= 1
  /\ openCalls <= 1
  /\ err.thrown =>
        /\ pc = "Responded"
        /\ res.status = mapError(variant, err).status
        /\ res.body = TextBody(mapError(variant, err).text, mapError(variant, err).detail)

\* C14 witness: download threw after the one loadAttributes call, and the
\* request ended with the mapped answer
C14_Witness ==
  /\ pc = "Responded"
  /\ err.thrown
  /\ metaCalls = 1 /\ openCalls = 1
  /\ dl.opened /\ ~dl.ok

\* ------------------------------------------------- claims about the relay
Relaying == pc \in {"Streaming", "Completed", "Aborted"}

\* C19: at most one response is ever sent for a request: once a status and
\* body were sent, or the relay has started, nothing else is sent, and the
\* catch block never runs after the relay has begun.
C19_AtMostOneResponse ==
  /\ res.sent <= 1
  /\ Answered => res.sent = 1
  /\ Relaying => (~err.thrown /\ res.body = StreamBody)
  /\ err.thrown => res.body.kind = "text"

\* C19 witness: the provider stream failed after the relay of a full
\* download had begun, and still only one response was sent
C19_Witness ==
  /\ pc = "Aborted"
  /\ stream.errored
  /\ res.status = 200
  /\ res.sent = 1

\* C16: during the relay the bytes read from the provider stream and not
\* yet taken by the client never exceed the high-water mark, whatever the
\* file size: the provider stream is paused while the buffer is full and
\* is paused only while bytes are waiting.
C16_BoundedBuffer ==
  pc = "Streaming" =>
     /\ Len(socket.buffered) <= HighWaterMark
     /\ Len(stream.yielded) - Len(socket.delivered) <= HighWaterMark
     /\ (stream.state = "open" /\ Len(socket.buffered) >= HighWaterMark) => ~stream.flowing
     /\ (stream.state = "open" /\ ~stream.flowing) => socket.buffered # <<>>

\* C16 witness: the buffer is full and the provider stream is paused
C16_Witness ==
  /\ pc = "Streaming"
  /\ stream.state = "open"
  /\ ~stream.flowing
  /\ Len(socket.buffered) = HighWaterMark

\* the window the claim names: bytes start..end for a 206, bytes 0..size-1
\* for a 200, each byte written as its offset
WindowBytes ==
  LET lo == IF res.status = 206 THEN range.start ELSE 0
      hi == IF res.status = 206 THEN range.end ELSE file.size - 1
  IN  [i \in 1..(hi - lo + 1) |-> lo + i - 1]

\* delivered is what was yielded; with a reported size it is the window;
\* an announced Content-Length is the number of bytes delivered
ExactDelivery ==
  /\ socket.delivered = stream.yielded
  /\ ~IsNaN(file.size) => socket.delivered = WindowBytes
  /\ HeaderOf("Content-Length").set =>
        HeaderOf("Content-Length").value = [of |-> "file", n |-> Len(socket.delivered)]

\* C15: when a request completes normally, the bytes delivered to the
\* client are the bytes the provider stream yielded, they are the bytes of
\* the window (start..end for a 206, 0..size-1 for a 200), in order, and
\* their number is the announced Content-Length.
C15_ExactWindow == pc = "Completed" => ExactDelivery

\* C15, for a file whose size the provider reported: the same, and the
\* Content-Length is announced
C15_ExactWindowOfKnownSize ==
  (pc = "Completed" /\ ~IsNaN(file.size)) =>
     (ExactDelivery /\ HeaderOf("Content-Length").set)

\* C12: when the provider stream fails during the relay, that step leaves
\* the response (status, headers, number of sends) as it was, makes no
\* further provider call, closes the client connection and ends the request
\* as Aborted; and no step changes the response once the relay has begun.
C12_ErrorAfterHeaders ==
  [][ /\ Relaying => res' = res
      /\ (pc = "Streaming" /\ stream'.errored) =>
            /\ pc' = "Aborted"
            /\ socket'.state = "closed"
            /\ res.status \in {200, 206}
            /\ metaCalls' = metaCalls /\ openCalls' = openCalls
            /\ err' = err
      /\ pc = "Aborted" => UNCHANGED vars ]_vars

\* C12 witness: a partial download was aborted by a provider stream error
\* after some bytes had reached the client
C12_Witness ==
  /\ pc = "Aborted"
  /\ stream.errored
  /\ res.status = 206
  /\ socket.state = "closed"
  /\ socket.delivered # <<>>

\* C11: no request is in a terminal state, and no client connection is
\* closed, while the provider stream opened for it is still open.
C11_ReleasedOnEveryExit ==
  (pc \in {"Completed", "Aborted", "Responded"} \/ socket.state = "closed") =>
     stream.state # "open"

\* C11, without the client disconnect: after normal completion and after a
\* provider stream error the stream is not open
C11_ReleasedUnlessClientAborts ==
  (pc = "Completed" \/ stream.errored) => stream.state # "open"

====
